---------------------------- MODULE Spec2Model ----------------------------
(***************************************************************************)
(* The region codec of mcutils: write_data / read_data / BlockReader of    *)
(* src/src/lib.rs and the earlier write_file / read_file / BlockReader of  *)
(* src/src/main.rs.  A region is saved to a byte stream and read back,     *)
(* possibly after the stream was cut or its header was altered; the writer *)
(* may fail at any byte, and the load of main.rs replays what it decodes   *)
(* into the world.  A second specification, GeometrySpec, is the           *)
(* derivation of a region from the two corners of a save or clear command. *)
(*                                                                         *)
(* Bytes are 0..255 and every integer is encoded in little-endian bytes    *)
(* of its real width.  TLC's integers are 32-bit signed, so the u32 values *)
(* the model draws are below 2^31.                                         *)
(***************************************************************************)
EXTENDS Integers, Sequences, FiniteSets, TLC

VARIABLES
    impl,     \* "lib": write_data/read_data (lib.rs); "main": write_file/read_file (main.rs)
    source,   \* "file": a read returns min(asked, left); "pipe": a read may return less
    chunk,    \* the block source of the save: [origin, size, blocks]
    pc,       \* position of the program: "header", "body", "block" (writer), "saved",
              \* "write_failed", "opened", "reading", "stopped", "failed", "aborted";
              \* "command", "normalized" (a command deriving its region)
    pulled,   \* number of blocks the writer has pulled from the source
    sink,     \* bytes the writer has appended to its sink
    file,     \* bytes of the stream the reader reads
    pos,      \* number of bytes of file consumed
    reader,   \* the BlockReader: [live, index, origin, size]
    shorts,   \* number of reads that returned less than was asked and left
    result,   \* what the last call returned: [res, err]
    terminal, \* the first return of next that was not an item: [res, err, at]
    items,    \* the (coordinate, block) pairs emitted so far, in order
    mutations, \* the set_block calls the load has made on the world, in order
    command,  \* the save or clear command given: [name, origin, bound]
    region    \* the region the command has derived from its two corners: [origin, size]

vars == <<impl, source, chunk, pc, pulled, sink, file, pos, reader, shorts, result, terminal, items,
          mutations, command, region>>

\* What the codec leaves as it was given.
setup == <<command, region, impl, source, chunk>>

-----------------------------------------------------------------------------
(* Program constants *)

MAGIC_NUMBER == 41977
VERSION == 256

(* Bounds of the model *)

MaxDim == 2
MaxVolume == 4
MaxFree == 2
MaxShortReads == 1
MaxCorner == 1

MaxRecords == MaxVolume + 1

-----------------------------------------------------------------------------
(* Values *)

Coordinate(x, y, z) == [x |-> x, y |-> y, z |-> z]
Size(x, y, z) == [x |-> x, y |-> y, z |-> z]
Block(id, modifier) == [id |-> id, modifier |-> modifier]

volume(size) == size.x * size.y * size.z

Origins == { Coordinate(10, 20, 30), Coordinate(-1, 0, 70000) }

Sizes == { s \in [x : 0..MaxDim, y : 0..MaxDim, z : 0..MaxDim] : volume(s) <= MaxVolume }

\* Blocks with an id different from the modifier and with more than one non-zero byte
\* (every byte below 128, so that any four of them are a u32 below 2^31).
Palette == { Block(258, 3), Block(7, 65801) }

\* The blocks {1,0}, {2,0}, ..., {n,0}.
Counting(n) == [i \in 1..n |-> Block(i, 0)]

FreeSeqs == UNION { [1..n -> Palette] : n \in 1..MaxFree }

\* Every size, zero dimensions included, with one block fewer than its volume, with as
\* many, and with one more.
GeometryChunks ==
    { c \in [origin : {Coordinate(10, 20, 30)}, size : Sizes,
             blocks : {Counting(n) : n \in 0..MaxRecords}] :
        Len(c.blocks) - volume(c.size) \in {-1, 0, 1} }

\* Every short sequence of palette blocks, at either origin, in a region it fills.
DataChunks ==
    { c \in [origin : Origins, size : Sizes, blocks : FreeSeqs] :
        volume(c.size) = Len(c.blocks) }

Chunks == GeometryChunks \cup DataChunks

-----------------------------------------------------------------------------
(* Little-endian encoding: to_le_bytes / from_le_bytes *)

Pow256(i) == CASE i = 0 -> 1 [] i = 1 -> 256 [] i = 2 -> 65536 [] i = 3 -> 16777216

\* n bytes of v, least significant first; a negative v is in two's complement.
to_le_bytes(v, n) == [i \in 1..n |-> (v \div Pow256(i - 1)) % 256]

\* An unsigned integer from its bytes.
from_le_bytes(b) ==
    LET RECURSIVE sum(_)
        sum(i) == IF i > Len(b) THEN 0 ELSE b[i] * Pow256(i - 1) + sum(i + 1)
    IN sum(1)

\* i32::from_le_bytes: the top byte carries the sign.
i32_from_le_bytes(b) ==
    LET top == IF b[4] >= 128 THEN b[4] - 256 ELSE b[4]
    IN from_le_bytes(SubSeq(b, 1, 3)) + top * Pow256(3)

-----------------------------------------------------------------------------
(* The writer *)

\* A header whose signature and version take four bytes each.
EncodeHeader_wide_version(origin, size) ==
    to_le_bytes(MAGIC_NUMBER, 4) \o to_le_bytes(VERSION, 4)
    \o to_le_bytes(origin.x, 4) \o to_le_bytes(origin.y, 4) \o to_le_bytes(origin.z, 4)
    \o to_le_bytes(size.x, 4) \o to_le_bytes(size.y, 4) \o to_le_bytes(size.z, 4)

\* A header with the size before the origin.
EncodeHeader_size_first(origin, size) ==
    to_le_bytes(MAGIC_NUMBER, 2) \o to_le_bytes(VERSION, 2)
    \o to_le_bytes(size.x, 4) \o to_le_bytes(size.y, 4) \o to_le_bytes(size.z, 4)
    \o to_le_bytes(origin.x, 4) \o to_le_bytes(origin.y, 4) \o to_le_bytes(origin.z, 4)

\* lib.rs 11-20: signature, version, origin, size.
EncodeHeader(origin, size) ==
    to_le_bytes(MAGIC_NUMBER, 2) \o to_le_bytes(VERSION, 2)
    \o to_le_bytes(origin.x, 4) \o to_le_bytes(origin.y, 4) \o to_le_bytes(origin.z, 4)
    \o to_le_bytes(size.x, 4) \o to_le_bytes(size.y, 4) \o to_le_bytes(size.z, 4)

\* A writer that emits the modifier before the id.
EncodeBlock_modifier_first(block) == to_le_bytes(block.modifier, 4) \o to_le_bytes(block.id, 4)

\* lib.rs 23-24: id, then modifier.
EncodeBlock(block) == to_le_bytes(block.id, 4) \o to_le_bytes(block.modifier, 4)

NoCommand == [name |-> "none", origin |-> Coordinate(0, 0, 0), bound |-> Coordinate(0, 0, 0)]
NoRegion == [origin |-> Coordinate(0, 0, 0), size |-> Size(0, 0, 0)]

NoReader == [live |-> FALSE, index |-> 0, origin |-> Coordinate(0, 0, 0), size |-> Size(0, 0, 0)]

Result(res, err) == [res |-> res, err |-> err]

Init ==
    /\ impl \in {"lib", "main"}
    /\ source \in {"file", "pipe"}
    /\ chunk \in Chunks
    /\ pc = "header"
    /\ pulled = 0
    /\ sink = <<>>
    /\ file = <<>>
    /\ pos = 0
    /\ reader = NoReader
    /\ shorts = 0
    /\ result = Result("Start", "")
    /\ terminal = [res |-> "Running", err |-> "", at |-> 0]
    /\ items = <<>>
    /\ mutations = <<>>
    /\ command = NoCommand
    /\ region = NoRegion

IoWriteError == "io::Error of write_all"
SourceError == "error of ChunkStream::next"

\* A write_all that writes a buffer again from its start after the sink failed.
write_all_retried(s, buf, n) == s \o SubSeq(buf, 1, n) \o buf

\* Write::write_all(buf) on a sink holding s, the sink failing once it has accepted
\* n < Len(buf) bytes of buf: the bytes accepted stay in the sink and write_all returns
\* the error (lib.rs 11-24 and main.rs 99-112 return it with `?`).
write_all(s, buf, n) == s \o SubSeq(buf, 1, n)

\* The bytes a write that fails may leave behind: fewer than the whole buffer.
Accepted(buf) == 0..(Len(buf) - 1)

\* lib.rs 11-20: the eight header fields are written before the loop starts.
write_data_header ==
    /\ impl = "lib"
    /\ pc = "header"
    /\ sink' = sink \o EncodeHeader(chunk.origin, chunk.size)
    /\ pc' = "body"
    /\ UNCHANGED <<setup, mutations, pulled, file, pos, reader, shorts, result, terminal, items>>

\* A writer that collects every block of the source before it writes the first.
write_data_next_collects ==
    /\ impl = "lib"
    /\ pc = "body"
    /\ pulled < Len(chunk.blocks)
    /\ pulled' = Len(chunk.blocks)
    /\ pc' = "block"
    /\ UNCHANGED <<setup, mutations, sink, file, pos, reader, shorts, result, terminal, items>>

\* lib.rs 22, the head of the loop: chunk.next() yields the next block.
write_data_next ==
    /\ impl = "lib"
    /\ pc = "body"
    /\ pulled < Len(chunk.blocks)
    /\ pulled' = pulled + 1
    /\ pc' = "block"
    /\ UNCHANGED <<setup, mutations, sink, file, pos, reader, shorts, result, terminal, items>>

\* lib.rs 23-24, the body of the loop: the 8 bytes of the block just pulled are written.
write_data_block ==
    /\ impl = "lib"
    /\ pc = "block"
    /\ sink' = sink \o EncodeBlock(chunk.blocks[pulled])
    /\ pc' = "body"
    /\ UNCHANGED <<setup, mutations, pulled, file, pos, reader, shorts, result, terminal, items>>

\* lib.rs 22, 27: the source yields None and write_data returns Ok(()).
write_data_done ==
    /\ impl = "lib"
    /\ pc = "body"
    /\ pulled = Len(chunk.blocks)
    /\ pc' = "saved"
    /\ result' = Result("Ok", "")
    /\ UNCHANGED <<setup, mutations, pulled, sink, file, pos, reader, shorts, terminal, items>>

\* lib.rs 11-24, the `?` of every write_all and of chunk.next(): the first failure
\* ends write_data with that error.
write_data_fails ==
    /\ impl = "lib"
    /\ \/ /\ pc = "header"
          /\ \E n \in Accepted(EncodeHeader(chunk.origin, chunk.size)) :
                sink' = write_all(sink, EncodeHeader(chunk.origin, chunk.size), n)
          /\ result' = Result("Err", IoWriteError)
       \/ /\ pc = "body"
          /\ sink' = sink
          /\ result' = Result("Err", SourceError)
       \/ /\ pc = "block"
          /\ \E n \in Accepted(EncodeBlock(chunk.blocks[pulled])) :
                sink' = write_all(sink, EncodeBlock(chunk.blocks[pulled]), n)
          /\ result' = Result("Err", IoWriteError)
    /\ pc' = "write_failed"
    /\ UNCHANGED <<setup, mutations, pulled, file, pos, reader, shorts, terminal, items>>

\* main.rs 99-108
write_file_header ==
    /\ impl = "main"
    /\ pc = "header"
    /\ sink' = sink \o EncodeHeader(chunk.origin, chunk.size)
    /\ pc' = "body"
    /\ UNCHANGED <<setup, mutations, pulled, file, pos, reader, shorts, result, terminal, items>>

\* main.rs 110: chunk.iter() yields the next item of the snapshot.
write_file_iter ==
    /\ impl = "main"
    /\ pc = "body"
    /\ pulled < Len(chunk.blocks)
    /\ pulled' = pulled + 1
    /\ pc' = "block"
    /\ UNCHANGED <<setup, mutations, sink, file, pos, reader, shorts, result, terminal, items>>

\* main.rs 111-112
write_file_block ==
    /\ impl = "main"
    /\ pc = "block"
    /\ sink' = sink \o EncodeBlock(chunk.blocks[pulled])
    /\ pc' = "body"
    /\ UNCHANGED <<setup, mutations, pulled, file, pos, reader, shorts, result, terminal, items>>

\* main.rs 110, 115
write_file_done ==
    /\ impl = "main"
    /\ pc = "body"
    /\ pulled = Len(chunk.blocks)
    /\ pc' = "saved"
    /\ result' = Result("Ok", "")
    /\ UNCHANGED <<setup, mutations, pulled, sink, file, pos, reader, shorts, terminal, items>>

\* main.rs 99-112, the `?` of every write_all (the iteration of a snapshot cannot fail).
write_file_fails ==
    /\ impl = "main"
    /\ \/ /\ pc = "header"
          /\ \E n \in Accepted(EncodeHeader(chunk.origin, chunk.size)) :
                sink' = write_all(sink, EncodeHeader(chunk.origin, chunk.size), n)
       \/ /\ pc = "block"
          /\ \E n \in Accepted(EncodeBlock(chunk.blocks[pulled])) :
                sink' = write_all(sink, EncodeBlock(chunk.blocks[pulled]), n)
    /\ result' = Result("Err", IoWriteError)
    /\ pc' = "write_failed"
    /\ UNCHANGED <<setup, mutations, pulled, file, pos, reader, shorts, terminal, items>>

-----------------------------------------------------------------------------
(* The stream handed to the reader *)

\* A signature that is not MAGIC_NUMBER: its two bytes swapped.
BadSignatures == { 63907 }

\* Versions below and above VERSION; 1 is VERSION with its two bytes swapped.
BadVersions == { 1, VERSION - 1, VERSION + 1 }

Cuts(s) == { SubSeq(s, 1, k) : k \in 0..Len(s) }

Reheaded(s) ==
    { to_le_bytes(h[1], 2) \o to_le_bytes(h[2], 2) \o SubSeq(s, 5, Len(s)) :
        h \in (({MAGIC_NUMBER} \cup BadSignatures) \X ({VERSION} \cup BadVersions))
                 \ {<<MAGIC_NUMBER, VERSION>>} }

\* A wrong signature followed by nothing, or by one byte of the version.
SignatureOnly(s) ==
    { to_le_bytes(sig, 2) \o SubSeq(s, 3, k) : sig \in BadSignatures, k \in {2, 3} }

\* The right signature and a wrong version followed by nothing, or by two more bytes.
VersionOnly(s) ==
    { to_le_bytes(MAGIC_NUMBER, 2) \o to_le_bytes(ver, 2) \o SubSeq(s, 5, k) :
        ver \in BadVersions, k \in {4, 6} }

\* i32::MAX
I32Max == 2147483647

\* The saved bytes with the x of the origin replaced by the largest i32.
Reoriginated(s) == { SubSeq(s, 1, 4) \o to_le_bytes(I32Max, 4) \o SubSeq(s, 9, Len(s)) }

\* The saved bytes, whole or cut anywhere, or with another signature, version or origin.
Streams(s) ==
    Cuts(s) \cup Reheaded(s) \cup SignatureOnly(s) \cup VersionOnly(s) \cup Reoriginated(s)

\* main.rs 79-82: the load opens a file.
Load ==
    /\ pc = "saved"
    /\ file' \in Streams(sink)
    /\ pos' = 0
    /\ pc' = "opened"
    /\ UNCHANGED <<setup, mutations, pulled, sink, reader, shorts, result, terminal, items>>

-----------------------------------------------------------------------------
(* Reading *)

IoUnexpectedEof == "io::ErrorKind::UnexpectedEof"

Min(a, b) == IF a < b THEN a ELSE b

\* A read that takes what is left of the stream and leaves the rest of the buffer zero.
read_exact_zero_filled(f, p, n) ==
    [ok |-> TRUE,
     bytes |-> [i \in 1..n |-> IF p + i <= Len(f) THEN f[p + i] ELSE 0],
     pos |-> Min(p + n, Len(f))]

\* Read::read_exact: all n bytes, or UnexpectedEof with the stream consumed.
read_exact(f, p, n) ==
    IF Len(f) - p >= n
    THEN [ok |-> TRUE, bytes |-> SubSeq(f, p + 1, p + n), pos |-> p + n]
    ELSE [ok |-> FALSE, bytes |-> <<>>, pos |-> Len(f)]

\* The byte counts one Read::read call asking for n bytes may return.
ReadCounts(f, p, n) ==
    IF Len(f) = p THEN {0}
    ELSE IF source = "file" \/ shorts >= MaxShortReads THEN { Min(n, Len(f) - p) }
    ELSE 1..Min(n, Len(f) - p)

\* The short reads so far, after a read asking for n bytes returned c.
CountShort(f, p, n, c) == IF c < Min(n, Len(f) - p) THEN shorts + 1 ELSE shorts

read_u16(f, p) ==
    LET r == read_exact(f, p, 2)
    IN IF r.ok THEN [ok |-> TRUE, val |-> from_le_bytes(r.bytes), pos |-> r.pos, err |-> ""]
       ELSE [ok |-> FALSE, val |-> 0, pos |-> r.pos, err |-> IoUnexpectedEof]

read_i32(f, p) ==
    LET r == read_exact(f, p, 4)
    IN IF r.ok THEN [ok |-> TRUE, val |-> i32_from_le_bytes(r.bytes), pos |-> r.pos, err |-> ""]
       ELSE [ok |-> FALSE, val |-> 0, pos |-> r.pos, err |-> IoUnexpectedEof]

read_u32(f, p) ==
    LET r == read_exact(f, p, 4)
    IN IF r.ok THEN [ok |-> TRUE, val |-> from_le_bytes(r.bytes), pos |-> r.pos, err |-> ""]
       ELSE [ok |-> FALSE, val |-> 0, pos |-> r.pos, err |-> IoUnexpectedEof]

\* lib.rs try_read_u32, the one read call returning c bytes.
try_read_u32(f, p, c) ==
    IF c = 0 THEN [ok |-> TRUE, some |-> FALSE, val |-> 0, pos |-> p, err |-> ""]
    ELSE IF c < 4
    THEN [ok |-> FALSE, some |-> FALSE, val |-> 0, pos |-> p + c, err |-> "Truncated data in file"]
    ELSE [ok |-> TRUE, some |-> TRUE, val |-> from_le_bytes(SubSeq(f, p + 1, p + 4)),
          pos |-> p + 4, err |-> ""]

\* main.rs try_read_u32
main_try_read_u32(f, p, c) ==
    IF c = 0 THEN [ok |-> TRUE, some |-> FALSE, val |-> 0, pos |-> p, err |-> ""]
    ELSE IF c < 4
    THEN [ok |-> FALSE, some |-> FALSE, val |-> 0, pos |-> p + c, err |-> IoUnexpectedEof]
    ELSE [ok |-> TRUE, some |-> TRUE, val |-> from_le_bytes(SubSeq(f, p + 1, p + 4)),
          pos |-> p + 4, err |-> ""]

\* A metadata check that takes an older file for a newer one and a newer for an older.
check_data_metadata_swapped(f, p) ==
    LET magic_number == read_u16(f, p)
        version == read_u16(f, magic_number.pos)
    IN IF ~magic_number.ok
       THEN [ok |-> FALSE, panic |-> FALSE, pos |-> magic_number.pos, err |-> magic_number.err]
       ELSE IF magic_number.val # MAGIC_NUMBER
       THEN [ok |-> FALSE, panic |-> FALSE, pos |-> magic_number.pos,
             err |-> "Invalid file format (signature does not match)"]
       ELSE IF ~version.ok
       THEN [ok |-> FALSE, panic |-> FALSE, pos |-> version.pos, err |-> version.err]
       ELSE IF version.val > VERSION
       THEN [ok |-> FALSE, panic |-> FALSE, pos |-> version.pos,
             err |-> "Outdated file format (try using an older version of mcutils)"]
       ELSE IF version.val < VERSION
       THEN [ok |-> FALSE, panic |-> FALSE, pos |-> version.pos,
             err |-> "Outdated program (try updating mcutils)"]
       ELSE [ok |-> TRUE, panic |-> FALSE, pos |-> version.pos, err |-> ""]

\* lib.rs check_data_metadata: an error value on a bad header.
check_data_metadata(f, p) ==
    LET magic_number == read_u16(f, p)
        version == read_u16(f, magic_number.pos)
    IN IF ~magic_number.ok
       THEN [ok |-> FALSE, panic |-> FALSE, pos |-> magic_number.pos, err |-> magic_number.err]
       ELSE IF magic_number.val # MAGIC_NUMBER
       THEN [ok |-> FALSE, panic |-> FALSE, pos |-> magic_number.pos,
             err |-> "Invalid file format (signature does not match)"]
       ELSE IF ~version.ok
       THEN [ok |-> FALSE, panic |-> FALSE, pos |-> version.pos, err |-> version.err]
       ELSE IF version.val < VERSION
       THEN [ok |-> FALSE, panic |-> FALSE, pos |-> version.pos,
             err |-> "Outdated file format (try using an older version of mcutils)"]
       ELSE IF version.val > VERSION
       THEN [ok |-> FALSE, panic |-> FALSE, pos |-> version.pos,
             err |-> "Outdated program (try updating mcutils)"]
       ELSE [ok |-> TRUE, panic |-> FALSE, pos |-> version.pos, err |-> ""]

\* main.rs check_metadata: panic! on a bad header.
check_metadata(f, p) ==
    LET magic_number == read_u16(f, p)
        version == read_u16(f, magic_number.pos)
    IN IF ~magic_number.ok
       THEN [ok |-> FALSE, panic |-> FALSE, pos |-> magic_number.pos, err |-> magic_number.err]
       ELSE IF magic_number.val # MAGIC_NUMBER
       THEN [ok |-> FALSE, panic |-> TRUE, pos |-> magic_number.pos, err |-> "Invalid file format"]
       ELSE IF ~version.ok
       THEN [ok |-> FALSE, panic |-> FALSE, pos |-> version.pos, err |-> version.err]
       ELSE IF version.val < VERSION
       THEN [ok |-> FALSE, panic |-> TRUE, pos |-> version.pos, err |-> "Outdated file format"]
       ELSE IF version.val > VERSION
       THEN [ok |-> FALSE, panic |-> TRUE, pos |-> version.pos, err |-> "Outdated program"]
       ELSE [ok |-> TRUE, panic |-> FALSE, pos |-> version.pos, err |-> ""]

\* lib.rs 33-41 / main.rs 171-179: origin (three i32), then size (three u32).
ReadRegion(f, p) ==
    LET ox == read_i32(f, p)
        oy == read_i32(f, ox.pos)
        oz == read_i32(f, oy.pos)
        sx == read_u32(f, oz.pos)
        sy == read_u32(f, sx.pos)
        sz == read_u32(f, sy.pos)
    IN [ok |-> ox.ok /\ oy.ok /\ oz.ok /\ sx.ok /\ sy.ok /\ sz.ok,
        pos |-> sz.pos,
        origin |-> Coordinate(ox.val, oy.val, oz.val),
        size |-> Size(sx.val, sy.val, sz.val)]

\* BlockReader::new
BlockReader_new(origin, size) == [live |-> TRUE, index |-> 0, origin |-> origin, size |-> size]

\* The header decode of either revision, given its metadata check m.
ReadHeader(m) ==
    IF ~m.ok
    THEN /\ pos' = m.pos
         /\ pc' = IF m.panic THEN "aborted" ELSE "failed"
         /\ result' = Result(IF m.panic THEN "Panic" ELSE "Err", m.err)
         /\ UNCHANGED reader
    ELSE LET r == ReadRegion(file, m.pos)
         IN /\ pos' = r.pos
            /\ IF r.ok
               THEN /\ reader' = BlockReader_new(r.origin, r.size)
                    /\ pc' = "reading"
                    /\ result' = Result("Reader", "")
               ELSE /\ pc' = "failed"
                    /\ result' = Result("Err", IoUnexpectedEof)
                    /\ UNCHANGED reader

\* lib.rs read_data
read_data ==
    /\ impl = "lib"
    /\ pc = "opened"
    /\ ReadHeader(check_data_metadata(file, pos))
    /\ UNCHANGED <<setup, mutations, pulled, sink, file, shorts, terminal, items>>

\* main.rs read_file
read_file ==
    /\ impl = "main"
    /\ pc = "opened"
    /\ ReadHeader(check_metadata(file, pos))
    /\ UNCHANGED <<setup, mutations, pulled, sink, file, shorts, terminal, items>>

\* A flattening with x innermost and z in the middle.
index_to_offset_x_inner(size, i) ==
    IF size.x = 0 \/ size.z = 0
    THEN [panic |-> TRUE, x |-> 0, y |-> 0, z |-> 0]
    ELSE [panic |-> FALSE,
          x |-> i % size.x,
          y |-> (i \div size.x) \div size.z,
          z |-> (i \div size.x) % size.z]

\* A flattening whose y divides by size.x twice.
index_to_offset_y_by_x(size, i) ==
    IF size.x = 0 \/ size.z = 0
    THEN [panic |-> TRUE, x |-> 0, y |-> 0, z |-> 0]
    ELSE [panic |-> FALSE,
          x |-> (i \div size.z) % size.x,
          y |-> (i \div size.x) \div size.x,
          z |-> i % size.z]

\* main.rs 158-160: the offset of record i, or the panic of an integer division (or
\* remainder) by zero.  lib.rs 89 calls Size::index_to_offset of the mcrs crate for
\* the same arithmetic.
index_to_offset(size, i) ==
    IF size.x = 0 \/ size.z = 0
    THEN [panic |-> TRUE, x |-> 0, y |-> 0, z |-> 0]
    ELSE [panic |-> FALSE,
          x |-> (i \div size.z) % size.x,
          y |-> (i \div size.x) \div size.z,
          z |-> i % size.z]

\* a + b on i32: whether the sum leaves the i32 range, and the sum wrapped into it
\* (computed without leaving the range on the way).
i32_add(a, b) ==
    IF a > 0 /\ b > 0 /\ b > I32Max - a
    THEN [overflow |-> TRUE, val |-> (a - I32Max - 1) + (b - I32Max - 1)]
    ELSE IF a < 0 /\ b < 0 /\ b < (0 - I32Max - 1) - a
    THEN [overflow |-> TRUE, val |-> (a + I32Max + 1) + (b + I32Max + 1)]
    ELSE [overflow |-> FALSE, val |-> a + b]

\* Whether origin + offset overflows on some axis.
AddOverflows(c, o) ==
    i32_add(c.x, o.x).overflow \/ i32_add(c.y, o.y).overflow \/ i32_add(c.z, o.z).overflow

\* main.rs 161, lib.rs 89: Coordinate + offset, componentwise on i32 (an offset of the
\* model is below 2^31, so that the cast `as i32` of main.rs 161 leaves it as it is).
\* This is the sum a build without overflow checks returns.
CoordinateAdd(c, o) ==
    Coordinate(i32_add(c.x, o.x).val, i32_add(c.y, o.y).val, i32_add(c.z, o.z).val)

OverflowPanic == "attempt to add with overflow"

\* The builds whose c + o differ: with overflow checks (a debug build panics on an
\* overflowing addition) and without (a release build wraps).  Where nothing overflows
\* the two builds return the same sum.
Checks(c, o) == IF AddOverflows(c, o) THEN BOOLEAN ELSE {TRUE}

Item(coordinate, block) == [coordinate |-> coordinate, block |-> block]

\* What one call of BlockReader::next returns, id being try_read_u32's result:
\* lib.rs 78-92 / main.rs 147-164.
\* checks: whether the build checks its integer overflows.
NextOutcome(id, checks) ==
    LET modifier == read_u32(file, id.pos)
        offset == index_to_offset(reader.size, reader.index)
        none == Item(Coordinate(0, 0, 0), Block(0, 0))
    IN IF ~id.ok THEN [res |-> "Err", err |-> id.err, pos |-> id.pos, item |-> none]
       ELSE IF ~id.some THEN [res |-> "None", err |-> "", pos |-> id.pos, item |-> none]
       ELSE IF ~modifier.ok
       THEN [res |-> "Err", err |-> modifier.err, pos |-> modifier.pos, item |-> none]
       ELSE IF offset.panic
       THEN [res |-> "Panic", err |-> "attempt to divide by zero", pos |-> modifier.pos,
             item |-> none]
       ELSE IF checks /\ AddOverflows(reader.origin, offset)
       THEN [res |-> "Panic", err |-> OverflowPanic, pos |-> modifier.pos, item |-> none]
       ELSE [res |-> "Some", err |-> "", pos |-> modifier.pos,
             item |-> Item(CoordinateAdd(reader.origin, offset), Block(id.val, modifier.val))]

\* A reader that counts its calls: the index grows also when no item is emitted.
Return_counts_calls(out) ==
    /\ pos' = out.pos
    /\ result' = Result(out.res, out.err)
    /\ items' = IF out.res = "Some" THEN Append(items, out.item) ELSE items
    /\ reader' = [reader EXCEPT !.index = @ + 1]
    /\ terminal' = IF terminal.res = "Running" /\ out.res # "Some"
                   THEN [res |-> out.res, err |-> out.err, at |-> Len(items)]
                   ELSE terminal

\* The effect of that call on the reader and on the record of the run.
Return(out) ==
    /\ pos' = out.pos
    /\ result' = Result(out.res, out.err)
    /\ items' = IF out.res = "Some" THEN Append(items, out.item) ELSE items
    /\ reader' = IF out.res = "Some" THEN [reader EXCEPT !.index = @ + 1] ELSE reader
    /\ terminal' = IF terminal.res = "Running" /\ out.res # "Some"
                   THEN [res |-> out.res, err |-> out.err, at |-> Len(items)]
                   ELSE terminal

\* lib.rs 69-71, BlockReader::bound: origin + size.  The caller asks a reader it has
\* just been given (the origin and the size do not change afterwards).
BlockReader_bound ==
    /\ impl = "lib"
    /\ pc = "reading"
    /\ result.res = "Reader"
    /\ \E checks \in Checks(reader.origin, reader.size) :
          IF checks /\ AddOverflows(reader.origin, reader.size)
          THEN /\ result' = Result("Panic", OverflowPanic)
               /\ pc' = "aborted"
          ELSE /\ result' = [res |-> "Bound", err |-> "",
                             val |-> CoordinateAdd(reader.origin, reader.size)]
               /\ pc' = pc
    /\ UNCHANGED <<setup, mutations, pulled, sink, file, pos, reader, shorts, terminal, items>>

\* lib.rs BlockReader::next; the caller may call it again after any return.
BlockReader_next ==
    /\ impl = "lib"
    /\ pc = "reading"
    /\ \E c \in ReadCounts(file, pos, 4),
          checks \in Checks(reader.origin, index_to_offset(reader.size, reader.index)) :
          LET out == NextOutcome(try_read_u32(file, pos, c), checks)
          IN /\ Return(out)
             /\ pc' = IF out.res = "Panic" THEN "aborted" ELSE pc
             /\ shorts' = CountShort(file, pos, 4, c)
    /\ UNCHANGED <<setup, mutations, pulled, sink, file>>

\* main.rs 88: mc.set_block(coord, block) is called for the pair just decoded (the
\* world accepts every call).
set_block(calls, item) == Append(calls, item)

\* main.rs BlockReader::next inside the loop of main (86-89): each pair decoded is
\* handed to set_block, the loop ends on None and entry.expect ends the process on an
\* error.
main_BlockReader_next ==
    /\ impl = "main"
    /\ pc = "reading"
    /\ \E c \in ReadCounts(file, pos, 4),
          checks \in Checks(reader.origin, index_to_offset(reader.size, reader.index)) :
          LET out == NextOutcome(main_try_read_u32(file, pos, c), checks)
          IN /\ Return(out)
             /\ mutations' = IF out.res = "Some" THEN set_block(mutations, out.item)
                              ELSE mutations
             /\ pc' = CASE out.res = "Panic" -> "aborted"
                        [] out.res = "Some" -> pc
                        [] OTHER -> "stopped"
             /\ shorts' = CountShort(file, pos, 4, c)
    /\ UNCHANGED <<setup, pulled, sink, file>>

Next ==
    \/ write_data_header \/ write_data_next \/ write_data_block \/ write_data_done
    \/ write_data_fails
    \/ write_file_header \/ write_file_iter \/ write_file_block \/ write_file_done
    \/ write_file_fails
    \/ Load
    \/ read_data
    \/ read_file
    \/ BlockReader_bound
    \/ BlockReader_next
    \/ main_BlockReader_next

Spec == Init /\ [][Next]_vars

-----------------------------------------------------------------------------
(* The corners of a command *)

\* Coordinate::min of mcrs: the componentwise minimum.
Coordinate_min(a, b) == Coordinate(Min(a.x, b.x), Min(a.y, b.y), Min(a.z, b.z))

abs(v) == IF v < 0 THEN 0 - v ELSE v

\* Coordinate::size_between of mcrs: the componentwise |a - b|.
size_between(a, b) == Size(abs(a.x - b.x), abs(a.y - b.y), abs(a.z - b.z))

\* A region that starts at the corner given first.
normalize_first_corner(a, b) == [origin |-> a, size |-> size_between(a, b)]

\* main.rs 73-74: size = origin.size_between(bound), origin = origin.min(bound).
normalize(a, b) == [origin |-> Coordinate_min(a, b), size |-> size_between(a, b)]

Corners == [x : (0 - MaxCorner)..MaxCorner, y : (0 - MaxCorner)..MaxCorner,
            z : (0 - MaxCorner)..MaxCorner]

\* args.rs 18-41: a clear or a save command with two corners, in any order.
GeometryInit ==
    /\ command \in [name : {"save", "clear"}, origin : Corners, bound : Corners]
    /\ region = NoRegion
    /\ pc = "command"
    /\ impl = "main"
    /\ source = "file"
    /\ chunk = [origin |-> Coordinate(0, 0, 0), size |-> Size(0, 0, 0), blocks |-> <<>>]
    /\ pulled = 0
    /\ sink = <<>>
    /\ file = <<>>
    /\ pos = 0
    /\ reader = NoReader
    /\ shorts = 0
    /\ result = Result("Start", "")
    /\ terminal = [res |-> "Running", err |-> "", at |-> 0]
    /\ items = <<>>
    /\ mutations = <<>>

\* main.rs 73-74: the save derives its region from its two corners.
Save ==
    /\ pc = "command"
    /\ command.name = "save"
    /\ region' = normalize(command.origin, command.bound)
    /\ pc' = "normalized"
    /\ UNCHANGED <<command, impl, source, chunk, pulled, sink, file, pos, reader, shorts, result,
                   terminal, items, mutations>>

\* args.rs 18-25: the clear derives its region from its two corners in the same way.
Clear ==
    /\ pc = "command"
    /\ command.name = "clear"
    /\ region' = normalize(command.origin, command.bound)
    /\ pc' = "normalized"
    /\ UNCHANGED <<command, impl, source, chunk, pulled, sink, file, pos, reader, shorts, result,
                   terminal, items, mutations>>

GeometryNext == Save \/ Clear

GeometrySpec == GeometryInit /\ [][GeometryNext]_vars

-----------------------------------------------------------------------------
(* Properties *)

HeaderLen == Len(EncodeHeader(Coordinate(0, 0, 0), Size(0, 0, 0)))
RecordLen == Len(EncodeBlock(Block(0, 0)))

\* The load has decoded, or tried to decode, the header.
Decoded == pc \in {"reading", "stopped", "failed", "aborted"}

\* The stream starts with the expected signature and the current version and holds a
\* whole header.
ValidHeader ==
    /\ Len(file) >= HeaderLen
    /\ SubSeq(file, 1, 4) = to_le_bytes(MAGIC_NUMBER, 2) \o to_le_bytes(VERSION, 2)

BodyLen == Len(file) - HeaderLen

\* The coordinate of record i (from 0) of a region.
ExpectedCoordinate(origin, size, i) == CoordinateAdd(origin, index_to_offset(size, i))

\* C1: round trip.  When the bytes write_data produced for a source of volume(size)
\* blocks are read back (every read returning the bytes it asked for), the reader has
\* the written origin and size, no call fails, the i-th item is
\* (origin + index_to_offset(size, i), b_i), and the first call that yields no item
\* reports the end of the stream after exactly volume(size) items.
C1_RoundTrip ==
    (/\ Decoded
     /\ file = sink
     /\ shorts = 0
     /\ Len(chunk.blocks) = volume(chunk.size))
    => /\ reader.live
       /\ reader.origin = chunk.origin
       /\ reader.size = chunk.size
       /\ result.res \notin {"Err", "Panic"}
       /\ Len(items) <= volume(chunk.size)
       /\ \A i \in 1..Len(items) :
             items[i] = Item(ExpectedCoordinate(chunk.origin, chunk.size, i - 1), chunk.blocks[i])
       /\ terminal.res # "Running"
            => terminal = [res |-> "None", err |-> "", at |-> volume(chunk.size)]

\* A region at a negative origin was read back whole.
C1_Witness ==
    /\ Decoded
    /\ file = sink
    /\ shorts = 0
    /\ Len(chunk.blocks) = volume(chunk.size)
    /\ chunk.origin.x < 0
    /\ Len(items) >= 2
    /\ terminal.res = "None"

\* The kind, in the taxonomy of the specification, of an error of the code.
ErrorKind(err) ==
    CASE err \in {"Invalid file format (signature does not match)", "Invalid file format"}
           -> "FormatMismatch"
      [] err \in {"Outdated file format (try using an older version of mcutils)",
                  "Outdated file format"}
           -> "OutdatedFile"
      [] err \in {"Outdated program (try updating mcutils)", "Outdated program"}
           -> "OutdatedProgram"
      [] err = "Truncated data in file" -> "TruncatedRecord"
      [] err = IoUnexpectedEof -> "Io"
      [] OTHER -> "Other"

SignatureMatches == SubSeq(file, 1, 2) = to_le_bytes(MAGIC_NUMBER, 2)
FileVersion == from_le_bytes(SubSeq(file, 3, 4))

\* C2: header rejection.  A stream whose signature is not the expected one fails with
\* FormatMismatch whatever follows the signature, and after the signature alone was
\* read; with the expected signature, a version below the current one fails with
\* OutdatedFile and a version above it with OutdatedProgram.
C2_HeaderRejection ==
    (Decoded /\ Len(file) >= 2)
    => /\ ~SignatureMatches
            => /\ ~reader.live
               /\ result.res \in {"Err", "Panic"}
               /\ ErrorKind(result.err) = "FormatMismatch"
               /\ pos = 2
       /\ (SignatureMatches /\ Len(file) >= 4 /\ FileVersion < VERSION)
            => /\ ~reader.live
               /\ result.res \in {"Err", "Panic"}
               /\ ErrorKind(result.err) = "OutdatedFile"
       /\ (SignatureMatches /\ Len(file) >= 4 /\ FileVersion > VERSION)
            => /\ ~reader.live
               /\ result.res \in {"Err", "Panic"}
               /\ ErrorKind(result.err) = "OutdatedProgram"

\* A stream with both a wrong signature and a wrong version was rejected for its signature.
C2_Witness ==
    /\ Decoded
    /\ Len(file) >= 4
    /\ ~SignatureMatches
    /\ FileVersion # VERSION
    /\ ErrorKind(result.err) = "FormatMismatch"

\* C3: a bad header is an error value.  Whenever the header decode yields no reader,
\* it has returned an error to its caller (it has not panicked).
C3_BadHeaderIsAnError ==
    (Decoded /\ ~reader.live) => result.res = "Err"

\* The error next returns for a record cut inside its id.
TruncatedRecordError == IF impl = "lib" THEN "Truncated data in file" ELSE IoUnexpectedEof

\* C4: truncation.  For a region with size.x and size.z not zero and a body of k whole
\* records followed by 1 to 7 bytes (every read returning what is there), the first
\* call that yields no item comes after exactly k items and fails with the same
\* truncation error wherever the record is cut.
C4_Truncation ==
    (/\ Decoded
     /\ ValidHeader
     /\ shorts = 0
     /\ reader.size.x > 0 /\ reader.size.z > 0
     /\ BodyLen % RecordLen # 0
     /\ terminal.res # "Running")
    => /\ terminal.res = "Err"
       /\ terminal.err = TruncatedRecordError
       /\ terminal.at = BodyLen \div RecordLen

\* C5: permissive length.  For a valid header and a body of exactly n records (every
\* read returning what is there), no call fails, at most n items are emitted, and the
\* first call that yields no item reports the end of the stream after n items.
C5_PermissiveLength ==
    (/\ Decoded
     /\ ValidHeader
     /\ shorts = 0
     /\ BodyLen % RecordLen = 0)
    => /\ reader.live
       /\ terminal.res \notin {"Err", "Panic"}
       /\ Len(items) <= BodyLen \div RecordLen
       /\ terminal.res # "Running"
            => terminal = [res |-> "None", err |-> "", at |-> BodyLen \div RecordLen]

\* The scenario: size (2,1,2) at (10,20,30) with the blocks {1,0} .. {4,0}, saved and
\* read back whole.
Scenario ==
    /\ chunk = [origin |-> Coordinate(10, 20, 30), size |-> Size(2, 1, 2), blocks |-> Counting(4)]
    /\ Decoded
    /\ file = sink
    /\ shorts = 0
    /\ terminal.res # "Running"

\* C6 as stated: the second item is at (11,20,30) and the third at (10,20,31).
C6_Scenario_Original ==
    Scenario
    => items = << Item(Coordinate(10, 20, 30), Block(1, 0)),
                  Item(Coordinate(11, 20, 30), Block(2, 0)),
                  Item(Coordinate(10, 20, 31), Block(3, 0)),
                  Item(Coordinate(11, 20, 31), Block(4, 0)) >>

\* C6, amended: the scenario decodes, in order, to (10,20,30)->{1,0}, (10,20,31)->{2,0},
\* (11,20,30)->{3,0}, (11,20,31)->{4,0} and then ends: z is the innermost axis, as
\* y = i / (size.x*size.z), x = (i / size.z) mod size.x, z = i mod size.z gives it.
C6_Scenario ==
    Scenario
    => /\ terminal = [res |-> "None", err |-> "", at |-> 4]
       /\ items = << Item(Coordinate(10, 20, 30), Block(1, 0)),
                     Item(Coordinate(10, 20, 31), Block(2, 0)),
                     Item(Coordinate(11, 20, 30), Block(3, 0)),
                     Item(Coordinate(11, 20, 31), Block(4, 0)) >>
       /\ \A i \in 0..3 :
             items[i + 1].coordinate =
                Coordinate(10 + ((i \div 2) % 2), 20 + (i \div (2 * 2)), 30 + (i % 2))

C6_Witness == Scenario /\ terminal.res = "None" /\ Len(items) = 4

\* The offset of the i-th emitted item (from 1) within the reader's region.
EmittedOffset(i) ==
    [x |-> items[i].coordinate.x - reader.origin.x,
     y |-> items[i].coordinate.y - reader.origin.y,
     z |-> items[i].coordinate.z - reader.origin.z]

Cuboid(size) == [x : 0..(size.x - 1), y : 0..(size.y - 1), z : 0..(size.z - 1)]

\* C7: index_to_offset is a bijection.  For a size of volume V > 0 (in a region whose
\* bound is an i32, so that the offsets can be read off the coordinates) the offsets of
\* the first V records are pairwise distinct points of the cuboid, their y is
\* i / (size.x * size.z), and once V records were emitted they are the whole cuboid.
C7_Bijection ==
    (reader.live /\ volume(reader.size) > 0 /\ ~AddOverflows(reader.origin, reader.size))
    => LET V == volume(reader.size)
           n == Min(Len(items), V)
       IN /\ \A i \in 1..n :
                /\ EmittedOffset(i) \in Cuboid(reader.size)
                /\ EmittedOffset(i).y = (i - 1) \div (reader.size.x * reader.size.z)
          /\ \A i, j \in 1..n : i # j => EmittedOffset(i) # EmittedOffset(j)
          /\ Len(items) >= V => { EmittedOffset(i) : i \in 1..V } = Cuboid(reader.size)

\* All records of a region two high were emitted.
C7_Witness ==
    /\ reader.live
    /\ reader.size.y = 2
    /\ volume(reader.size) = 4
    /\ Len(items) >= 4

\* C8: the outcome does not depend on how the source splits the bytes over its reads.
\* For a region with size.x and size.z not zero and a body of exactly n records, under
\* every splitting, no call fails and the first call that yields no item reports the
\* end of the stream after n items.
C8_SplitIndependent ==
    (/\ Decoded
     /\ ValidHeader
     /\ reader.size.x > 0 /\ reader.size.z > 0
     /\ BodyLen % RecordLen = 0)
    => /\ result.res # "Err"
       /\ terminal.res # "Running"
            => terminal = [res |-> "None", err |-> "", at |-> BodyLen \div RecordLen]

\* C9: terminal states are absorbing.  Once a call of next has reported the end of the
\* stream or an error, no later call emits an item.
C9_TerminalAbsorbing ==
    [][terminal.res # "Running" => items' = items]_vars

\* C10: no abort on degenerate sizes.  With a size of volume 0 no call of next aborts.
C10_NoAbortOnZeroSize ==
    (reader.live /\ volume(reader.size) = 0) => terminal.res # "Panic"

\* The bytes a run of the writer without a failure appends for a block source.
Encoding(c) ==
    LET RECURSIVE body(_)
        body(k) == IF k > Len(c.blocks) THEN <<>> ELSE EncodeBlock(c.blocks[k]) \o body(k + 1)
    IN EncodeHeader(c.origin, c.size) \o body(1)

IsPrefix(p, s) == Len(p) <= Len(s) /\ SubSeq(s, 1, Len(p)) = p

\* The blocks whose 8 bytes are all in the sink.
Written == IF Len(sink) < HeaderLen THEN 0 ELSE (Len(sink) - HeaderLen) \div RecordLen

\* What holds of a writer that has failed.
FailedWriter ==
    /\ result.res = "Err"
    /\ result.err = IF Len(sink) = HeaderLen + RecordLen * pulled THEN SourceError ELSE IoWriteError
    /\ IsPrefix(sink, Encoding(chunk))
    /\ Len(sink) < Len(Encoding(chunk)) \/ result.err = SourceError
    /\ pulled \in {Written, Written + 1}

\* C11: writer failure.  When a write to the sink or a pull from the source fails, the
\* writer returns that error at once: the step that fails leaves in the sink a prefix of
\* the encoding a run without failure produces, with no block pulled beyond the one
\* being written, and after it no byte is written and no block is pulled.
C11_WriterFailure ==
    [][/\ pc' = "write_failed" => FailedWriter'
       /\ pc = "write_failed" => (sink' = sink /\ pulled' = pulled /\ result' = result)]_vars

\* The write of the second block failed after three of its bytes.
C11_Witness ==
    /\ pc = "write_failed"
    /\ impl = "lib"
    /\ pulled = 2
    /\ Len(sink) = HeaderLen + RecordLen + 3

\* C12 as stated: the header takes 20 bytes, a write without failure of N blocks appends
\* 20 + 8*N bytes and the first record starts at byte offset 20.
C12_FileSize_Original ==
    /\ (pc = "body" /\ pulled = 0) => Len(sink) = 20
    /\ pc = "saved"
         => /\ Len(sink) = 20 + 8 * Len(chunk.blocks)
            /\ Len(chunk.blocks) >= 1 => SubSeq(sink, 21, 28) = EncodeBlock(chunk.blocks[1])

\* C12, amended: the header (signature u16, version u16, three i32, three u32) takes
\* 2 + 2 + 12 + 12 = 28 bytes, a write without failure of N blocks appends 28 + 8*N
\* bytes and the first record starts at byte offset 28.
C12_FileSize ==
    /\ (pc = "body" /\ pulled = 0) => Len(sink) = 28
    /\ pc = "saved"
         => /\ Len(sink) = 28 + 8 * Len(chunk.blocks)
            /\ Len(chunk.blocks) >= 1 => SubSeq(sink, 29, 36) = EncodeBlock(chunk.blocks[1])

C12_Witness == pc = "saved" /\ Len(chunk.blocks) = 3

\* The unsigned integer in the w bytes of the sink that follow byte offset at.
SinkField(at, w) == from_le_bytes(SubSeq(sink, at + 1, at + w))

\* C13: writer field order.  The bytes of a finished write are the signature constant,
\* the version constant, origin.x, origin.y, origin.z, size.x, size.y, size.z and then,
\* for each block in source order, its id and its modifier, all little-endian; there
\* are as many records as blocks, whatever the volume of the size.
C13_FieldOrder ==
    pc = "saved"
    => /\ SinkField(0, 2) = 41977
       /\ SinkField(2, 2) = 256
       /\ i32_from_le_bytes(SubSeq(sink, 5, 8)) = chunk.origin.x
       /\ i32_from_le_bytes(SubSeq(sink, 9, 12)) = chunk.origin.y
       /\ i32_from_le_bytes(SubSeq(sink, 13, 16)) = chunk.origin.z
       /\ SinkField(16, 4) = chunk.size.x
       /\ SinkField(20, 4) = chunk.size.y
       /\ SinkField(24, 4) = chunk.size.z
       /\ Len(sink) = 28 + 8 * Len(chunk.blocks)
       /\ \A k \in 1..Len(chunk.blocks) :
             /\ SinkField(28 + 8 * (k - 1), 4) = chunk.blocks[k].id
             /\ SinkField(28 + 8 * (k - 1) + 4, 4) = chunk.blocks[k].modifier

\* A source with more blocks than the volume of its size was written.
C13_Witness ==
    /\ pc = "saved"
    /\ volume(chunk.size) = 2
    /\ Len(chunk.blocks) = 3
    /\ chunk.size.x # chunk.size.z

\* C16: the writer is incremental.  write_data has written the whole header before it
\* pulls the first block; when it has just pulled a block every earlier block is wholly
\* written, and when it is about to pull every pulled block is; so the blocks pulled
\* exceed the blocks wholly written by at most 1.
C16_Incremental ==
    impl = "lib"
    => /\ pulled > 0 => Len(sink) >= HeaderLen
       /\ pulled - Written \in {0, 1}
       /\ pc = "block" => Len(sink) = HeaderLen + RecordLen * (pulled - 1)
       /\ pc = "body" => Len(sink) = HeaderLen + RecordLen * pulled

\* The second block was pulled after the first was written.
C16_Witness ==
    /\ impl = "lib"
    /\ pc = "block"
    /\ pulled = 2
    /\ Len(sink) = HeaderLen + RecordLen

\* The origin and the size in the header bytes of the stream.
HeaderOrigin ==
    Coordinate(i32_from_le_bytes(SubSeq(file, 5, 8)), i32_from_le_bytes(SubSeq(file, 9, 12)),
               i32_from_le_bytes(SubSeq(file, 13, 16)))
HeaderSize ==
    Size(from_le_bytes(SubSeq(file, 17, 20)), from_le_bytes(SubSeq(file, 21, 24)),
         from_le_bytes(SubSeq(file, 25, 28)))

\* C18: the index of the reader is the number of items it has emitted: 0 once it is
\* constructed, one more after each item, the same after a call that reports the end of
\* the stream or an error; its origin and its size stay those of the header.
C18_IndexCountsItems ==
    /\ ~reader.live => items = <<>>
    /\ reader.live
         => /\ reader.index = Len(items)
            /\ result.res = "Reader" => reader.index = 0
            /\ reader.origin = HeaderOrigin
            /\ reader.size = HeaderSize

\* Two items were emitted and the call after them failed.
C18_Witness ==
    /\ reader.live
    /\ Len(items) = 2
    /\ result.res = "Err"

\* The stream holds a whole header with the expected signature and the current version.
CompleteHeader == Len(file) >= 28 /\ SignatureMatches /\ FileVersion = VERSION

\* The kind of failure of the header decode of a stream that ends inside the header.
ShortHeaderKind ==
    IF Len(file) < 2 THEN "Io"
    ELSE IF ~SignatureMatches THEN "FormatMismatch"
    ELSE IF Len(file) < 4 THEN "Io"
    ELSE IF FileVersion < VERSION THEN "OutdatedFile"
    ELSE IF FileVersion > VERSION THEN "OutdatedProgram"
    ELSE "Io"

\* C20 as stated: a reader is returned exactly for a complete header with the expected
\* signature and the current version, with the 28 header bytes consumed and index 0; a
\* stream that ends anywhere inside the header fails with an I/O error and yields no
\* reader and no item; on a signature mismatch only the signature was read.
C20_HeaderConsumption_Original ==
    Decoded
    => /\ reader.live <=> CompleteHeader
       /\ result.res = "Reader" => (pos = 28 /\ reader.index = 0 /\ items = <<>>)
       /\ Len(file) < 28
            => /\ ~reader.live
               /\ items = <<>>
               /\ ErrorKind(result.err) = "Io"
       /\ (Len(file) >= 2 /\ ~SignatureMatches) => pos = 2

\* C20, amended: as stated, but a stream that ends inside the header fails with an I/O
\* error only if the header decode does not reject it first: it fails with
\* FormatMismatch when its two signature bytes are not the expected ones, and with
\* OutdatedFile or OutdatedProgram when its signature is right and its two version bytes
\* are below or above the current version.
C20_HeaderConsumption ==
    Decoded
    => /\ reader.live <=> CompleteHeader
       /\ result.res = "Reader" => (pos = 28 /\ reader.index = 0 /\ items = <<>>)
       /\ Len(file) < 28
            => /\ ~reader.live
               /\ items = <<>>
               /\ result.res \in {"Err", "Panic"}
               /\ ErrorKind(result.err) = ShortHeaderKind
               /\ ShortHeaderKind = "Io" => result.res = "Err"
       /\ (Len(file) >= 2 /\ ~SignatureMatches) => pos = 2

\* A stream that ends inside the size, after a good signature and version, has failed.
C20_Witness ==
    /\ Decoded
    /\ Len(file) = 21
    /\ SignatureMatches
    /\ FileVersion = VERSION
    /\ result = Result("Err", IoUnexpectedEof)

\* The world the load is replayed into: every cell holds the block {1,0} when the load
\* starts (main.rs 57: the world behind the connection).
World(coordinate) == Block(1, 0)

\* The block of the world at the coordinate of the k-th set_block call, before that call.
CurrentBlock(k) ==
    LET c == mutations[k].coordinate
        earlier == { j \in 1..(k - 1) : mutations[j].coordinate = c }
    IN IF earlier = {} THEN World(c)
       ELSE mutations[CHOOSE j \in earlier : \A i \in earlier : i <= j].block

\* C14: apply only on difference.  Every set_block call the load makes is for a pair
\* whose block differs from the block the world holds at that coordinate.
C14_ApplyOnlyOnDifference ==
    \A k \in 1..Len(mutations) : mutations[k].block # CurrentBlock(k)

\* C17: exact sums.  bound() is origin + size and every emitted coordinate is
\* origin + index_to_offset(size, i), as integers: no sum wraps around and no sum aborts.
C17_ExactSums ==
    /\ result # Result("Panic", OverflowPanic)
    /\ terminal.err # OverflowPanic
    /\ result.res = "Bound"
         => /\ ~AddOverflows(reader.origin, reader.size)
            /\ result.val = Coordinate(reader.origin.x + reader.size.x,
                                       reader.origin.y + reader.size.y,
                                       reader.origin.z + reader.size.z)
    /\ \A i \in 1..Len(items) :
          LET offset == index_to_offset(reader.size, i - 1)
          IN /\ ~AddOverflows(reader.origin, offset)
             /\ items[i].coordinate = Coordinate(reader.origin.x + offset.x,
                                                 reader.origin.y + offset.y,
                                                 reader.origin.z + offset.z)

\* origin <= c < origin + size on every axis.
Inside(c, origin, size) ==
    /\ c.x >= origin.x /\ c.x - origin.x < size.x
    /\ c.y >= origin.y /\ c.y - origin.y < size.y
    /\ c.z >= origin.z /\ c.z - origin.z < size.z

\* C19: for a header whose size has no zero dimension, the coordinate of the i-th record
\* (from 0) is inside the region if and only if i < volume; a record beyond the volume
\* has a y offset of at least size.y; and every whole record of the body is emitted
\* (every read returning what is there), also beyond the volume.
C19_InsideIffBelowVolume ==
    (reader.live /\ reader.size.x > 0 /\ reader.size.y > 0 /\ reader.size.z > 0)
    => /\ \A i \in 1..Len(items) :
             LET c == items[i].coordinate
             IN /\ Inside(c, reader.origin, reader.size) <=> (i - 1 < volume(reader.size))
                /\ i - 1 >= volume(reader.size)
                     => (c.y >= reader.origin.y /\ c.y - reader.origin.y >= reader.size.y)
       /\ (shorts = 0 /\ BodyLen % RecordLen = 0 /\ terminal.res # "Running")
            => terminal = [res |-> "None", err |-> "", at |-> BodyLen \div RecordLen]

\* C15: normalization symmetry.  The region a save or a clear derives from the corners
\* a and b is the region it derives from b and a; on every axis its origin is the
\* smaller of the two corners, its size is |a - b| and its origin is at most its bound
\* origin + size, which is the larger of the two corners.
C15_NormalizationSymmetry ==
    pc = "normalized"
    => LET a == command.origin
           b == command.bound
           Axis(o, n, p, q) ==
               /\ o \in {p, q} /\ o <= p /\ o <= q
               /\ n \in {p - q, q - p} /\ n >= 0
               /\ o <= o + n
               /\ o + n \in {p, q} /\ o + n >= p /\ o + n >= q
       IN /\ region = normalize(b, a)
          /\ Axis(region.origin.x, region.size.x, a.x, b.x)
          /\ Axis(region.origin.y, region.size.y, a.y, b.y)
          /\ Axis(region.origin.z, region.size.z, a.z, b.z)

\* A save whose first corner is the larger on x and the smaller on y was normalized.
C15_Witness ==
    /\ pc = "normalized"
    /\ command.name = "save"
    /\ command.origin.x > command.bound.x
    /\ command.origin.y < command.bound.y

=============================================================================
